---- MODULE Spec2Model ----
(***************************************************************************)
(* A model of chainstore (src/index.js): the shared engine                 *)
(* (InnerChainstore), the namespaced views (Chainstore), the               *)
(* reference-counted chain cache, and the replication multiplexer.         *)
(*                                                                         *)
(* JavaScript runs every handler to completion, so each handler is one     *)
(* atomic action; asynchronous completions (chain ready / error / close,   *)
(* ready callbacks, check-if-exists completions, stream events, nextTick)  *)
(* are separate actions that may interleave in any order.                  *)
(***************************************************************************)
EXTENDS Integers, Sequences, FiniteSets, TLC

(***************************************************************************)
(* Bounds of the model.                                                    *)
(***************************************************************************)
\* Chain handles the engine may instantiate in one run.
MaxChains == 2
\* Replication streams that may be created in one run.
MaxStreams == 2

(***************************************************************************)
(* State.                                                                  *)
(***************************************************************************)
VARIABLES
  engine,      \* InnerChainstore: "new", "opening" or "opened" (this.opened)
  chains,      \* the chain handles instantiated so far, by handle number
  cache,       \* the RefPool: entries (id -> value, refs) and the LRU order
  owned,       \* per view: _openedChains, a map from id to chain handle
  viewClosed,  \* per view: close has been called on it
  disk,        \* ids whose chain directory holds a key file
  ret,         \* the chain handle the last call returned (0: none)
  threw,       \* the error the last call threw ("": none)
  streams,     \* the streams made by replicate: the closure flag `closed`,
               \* destroyed, the view that made it, the chains there were then
  replStreams, \* _replicationStreams: the active streams, in push order
  readyCbs,    \* chain.ready callbacks registered by _replicateChain
  replicated,  \* the (chain, stream) pairs chain.replicate was called for
  checks,      \* _checkIfExists calls whose callback is still to come
  subClosed,   \* the (stream, dkey) sub-channels closed by mainStream.close
  closing,     \* InnerChainstore._close: its locals and its callback
  teardown,    \* the collaborator calls made by _close, in program order
  got,         \* per view: the chains its get and default calls returned
  answer,      \* what the last isLoaded / isExternal call returned ("": none)
  feeds,       \* the 'feed' events the engine emitted: (chain, chainOpts)
  viewFeeds,   \* per view: the 'feed' events its listeners were called with
  masterKey,   \* InnerChainstore._masterKey (0: null)
  keyFile      \* the master_key file of the storage: its size and bytes

coreVars == <<engine, chains, cache, owned, viewClosed, disk>>
callVars == <<ret, threw>>
replVars == <<streams, replStreams, readyCbs, replicated, checks, subClosed>>
closeVars == <<closing, teardown>>
feedVars == <<feeds, viewFeeds>>
keyVars == <<masterKey, keyFile>>
vars == <<engine, chains, cache, owned, viewClosed, disk, ret, threw,
          streams, replStreams, readyCbs, replicated, checks, subClosed,
          closing, teardown, got, answer, feeds, viewFeeds, masterKey,
          keyFile>>

(***************************************************************************)
(* Values.  A Buffer and its string encoding are different values: the     *)
(* conversions between them are modelled, never taken as the identity.     *)
(***************************************************************************)
Null == [t |-> "null", v |-> 0]
Buf(n) == [t |-> "buf", v |-> n]
Str(n) == [t |-> "str", v |-> n]

\* encodeKey: a Buffer is encoded to its string, anything else is passed on.
encodeKey(key) == IF key.t = "buf" THEN Str(key.v) ELSE key

\* decodeKey: a string is decoded to its Buffer, anything else is passed on.
decodeKey(key) == IF key.t = "str" THEN Buf(key.v) ELSE key

\* bitwebCrypto.discoveryKey: a deterministic, injective tag of a public key
\* (n + 10 on the byte values used here; it has no fixed point).
discoveryKey(publicKey) == Buf(publicKey.v + 10)

\* The secret key that belongs to a public key.
secretKeyOf(publicKey) == Buf(publicKey.v + 100)

(***************************************************************************)
(* Names and key derivation.  deriveSeed(NAMESPACE, masterKey, name)       *)
(* followed by keyPair(seed) is a deterministic injection of the pairs     *)
(* (master key, name): different master keys give different key pairs.     *)
(***************************************************************************)
RootName == "default"
RandomNames == {"rnd"}
ViewNames == {"default", "a", "b", "a:a", "a:b"}
AllNames == ViewNames \cup RandomNames

NameSeed(name) ==
  CASE name = "default" -> 1
    [] name = "a" -> 2
    [] name = "b" -> 3
    [] name = "a:a" -> 6
    [] name = "a:b" -> 7
    [] OTHER -> 4

\* A public key that is not derived from the master key (an external chain).
ExternalKey == Buf(5)

\* The master key: null, or one of the values randomBytes(32) may draw.
NoKey == 0
RandomKeys == {1, 2}

\* _deriveSecret(NAMESPACE, name) followed by bitwebCrypto.keyPair(seed): the
\* public key derived from a master key and a name.
DerivedKey(mk, name) == Buf(NameSeed(name) + 20 * (mk - 1))

\* _generateKeyPair(name) for a given name (the random choice for a missing
\* name is made by the caller of this operator).
generateKeyPair(name) ==
  LET publicKey == DerivedKey(masterKey, name)
  IN  [name |-> name, publicKey |-> publicKey,
       secretKey |-> secretKeyOf(publicKey),
       discoveryKey |-> discoveryKey(publicKey), throws |-> ""]

(***************************************************************************)
(* Options of get.  An options value is raw bytes, a string, or an object  *)
(* with the fields keyPair, key, name, default and discoveryKey (Null or   *)
(* "" or FALSE when absent).                                               *)
(***************************************************************************)
NoName == ""
Obj(keyPair, key, name, default, dkey) ==
  [t |-> "obj", keyPair |-> keyPair, key |-> key, name |-> name,
   default |-> default, discoveryKey |-> dkey]
EmptyOpts == Obj(Null, Null, NoName, FALSE, Null)
RawOpts(b) == [t |-> "raw", keyPair |-> Null, key |-> b, name |-> NoName,
               default |-> FALSE, discoveryKey |-> Null]

\* Mutant of generateKeys: a name is looked at before a key.
generateKeys_NameFirst(chainOpts, rnd) ==
  LET o == IF chainOpts.t = "raw"
           THEN Obj(Null, decodeKey(chainOpts.key), NoName, FALSE, Null)
           ELSE chainOpts
  IN  IF o.keyPair # Null
      THEN [name |-> NoName, publicKey |-> o.keyPair,
            secretKey |-> secretKeyOf(o.keyPair),
            discoveryKey |-> discoveryKey(o.keyPair), throws |-> ""]
      ELSE IF o.default \/ o.name # NoName
      THEN IF o.name = NoName
           THEN [name |-> NoName, publicKey |-> Null, secretKey |-> Null,
                 discoveryKey |-> Null, throws |-> "MissingName"]
           ELSE generateKeyPair(o.name)
      ELSE IF o.key # Null
      THEN [name |-> NoName, publicKey |-> decodeKey(o.key),
            secretKey |-> Null,
            discoveryKey |-> discoveryKey(decodeKey(o.key)), throws |-> ""]
      ELSE IF o.discoveryKey # Null
      THEN [name |-> NoName, publicKey |-> Null, secretKey |-> Null,
            discoveryKey |-> decodeKey(o.discoveryKey), throws |-> ""]
      ELSE generateKeyPair(rnd)

\* _generateKeys(chainOpts); rnd is the name drawn when no shape matches.
\* A top-level string is decoded as hex, top-level bytes become {key: bytes}.
generateKeys(chainOpts, rnd) ==
  LET o == IF chainOpts.t = "raw"
           THEN Obj(Null, decodeKey(chainOpts.key), NoName, FALSE, Null)
           ELSE chainOpts
  IN  IF o.keyPair # Null
      THEN [name |-> NoName, publicKey |-> o.keyPair,
            secretKey |-> secretKeyOf(o.keyPair),
            discoveryKey |-> discoveryKey(o.keyPair), throws |-> ""]
      ELSE IF o.key # Null
      THEN [name |-> NoName, publicKey |-> decodeKey(o.key),
            secretKey |-> Null,
            discoveryKey |-> discoveryKey(decodeKey(o.key)), throws |-> ""]
      ELSE IF o.default \/ o.name # NoName
      THEN IF o.name = NoName
           THEN [name |-> NoName, publicKey |-> Null, secretKey |-> Null,
                 discoveryKey |-> Null, throws |-> "MissingName"]
           ELSE generateKeyPair(o.name)
      ELSE IF o.discoveryKey # Null
      THEN [name |-> NoName, publicKey |-> Null, secretKey |-> Null,
            discoveryKey |-> decodeKey(o.discoveryKey), throws |-> ""]
      ELSE generateKeyPair(rnd)

\* The views: the root, the namespaces "a", "b", "default" and "a:b" made
\* by the root, and the namespaces "a" and "b" made by the root's namespace
\* "a".
\* The child names are strings (namespace turns a Buffer into its hex
\* string before it composes the name).
Root == "root"
Views == {"root", "a", "b", "d", "a:b", "a/a", "a/b"}
ParentOf(v) == IF v \in {"a/a", "a/b"} THEN "a" ELSE Root
ChildOf(v) ==
  CASE v = "d" -> "default"
    [] v = "a/a" -> "a"
    [] v = "a/b" -> "b"
    [] OTHER -> v

\* Chainstore._parent and Chainstore._isNamespaced (= !!opts.name).
HasParent(v) == v # Root
IsNamespaced(v) == v # Root

\* Mutant of NamespaceName: under a namespaced parent the child is dropped.
NamespaceName_NoChild(parentName, isNamespaced, child) ==
  IF isNamespaced THEN parentName ELSE child

\* The name namespace(child) gives the new view:
\* this._isNamespaced ? this.name + NAMESPACE_SEPERATOR + name : name.
NamespaceName(parentName, isNamespaced, child) ==
  IF isNamespaced THEN parentName \o ":" \o child ELSE child

\* Chainstore constructor: this.name = opts.name || 'default'; the root is
\* made without a name, a namespace with the name its parent composed.
RECURSIVE ViewName(_)
ViewName(v) ==
  IF v = Root THEN RootName
  ELSE NamespaceName(ViewName(ParentOf(v)), IsNamespaced(ParentOf(v)), ChildOf(v))

ChainIds == 1..Len(chains)
StreamIds == 1..Len(streams)

(***************************************************************************)
(* Finite maps and sequences.                                              *)
(***************************************************************************)
EmptyMap == [x \in {} |-> 0]
Put(f, k, val) == [x \in DOMAIN f \cup {k} |-> IF x = k THEN val ELSE f[x]]
Drop(f, k) == [x \in DOMAIN f \ {k} |-> f[x]]
Without(s, x) == SelectSeq(s, LAMBDA y : y # x)
Range(s) == {s[i] : i \in 1..Len(s)}

(***************************************************************************)
(* The chain cache (RefPool): entries id -> {value, refs} and the order of *)
(* use, least recently used first.                                         *)
(***************************************************************************)
\* opts.cacheSize of the engine under test.
CacheSize == 1

EmptyCache == [entries |-> EmptyMap, lru |-> <<>>]
CacheHas(c, id) == id \in DOMAIN c.entries
CacheSizeOf(c) == Cardinality(DOMAIN c.entries)
CacheEntryRefs(c, id) == IF CacheHas(c, id) THEN c.entries[id].refs ELSE 0
CacheValue(c, id) == IF CacheHas(c, id) THEN c.entries[id].value ELSE 0

\* get(id): the chain (0 when absent); a hit makes the entry most recent.
CacheTouch(c, id) ==
  IF CacheHas(c, id)
  THEN [c EXCEPT !.lru = Append(Without(c.lru, id), id)]
  ELSE c

\* The zero-ref entries other than `keep`, least recently used first.
Unreferenced(c, keep) ==
  SelectSeq(c.lru, LAMBDA id : id # keep /\ c.entries[id].refs = 0)

\* Mutant of CacheGc: the least recently used entry is evicted, pinned or
\* not.
RECURSIVE CacheGc_Oldest(_, _)
CacheGc_Oldest(c, keep) ==
  IF CacheSizeOf(c) > CacheSize /\ Without(c.lru, keep) # <<>>
  THEN LET old == Head(Without(c.lru, keep))
       IN  CacheGc_Oldest([entries |-> Drop(c.entries, old),
                           lru |-> Without(c.lru, old)], keep)
  ELSE c

\* Evict least-recently-used zero-ref entries while the size exceeds the
\* capacity.  Pinned entries are never evicted, and neither is the entry
\* being inserted: when every other entry is pinned the cache grows past
\* its capacity.
RECURSIVE CacheGc(_, _)
CacheGc(c, keep) ==
  IF CacheSizeOf(c) > CacheSize /\ Unreferenced(c, keep) # <<>>
  THEN LET old == Head(Unreferenced(c, keep))
       IN  CacheGc([entries |-> Drop(c.entries, old),
                    lru |-> Without(c.lru, old)], keep)
  ELSE c

\* set(id, chain): insert with refs = 0, then evict.
CacheSet(c, id, chain) ==
  CacheGc([entries |-> Put(c.entries, id, [value |-> chain, refs |-> 0]),
           lru |-> Append(Without(c.lru, id), id)], id)

\* The chains that set(id, chain) evicts (the close callback gets each).
CacheEvicted(c, id, chain) ==
  {c.entries[x].value : x \in DOMAIN c.entries \ DOMAIN CacheSet(c, id, chain).entries}

\* increment(id) / decrement(id): adjust refs of an entry that exists.
CacheIncrement(c, id) ==
  IF CacheHas(c, id)
  THEN [c EXCEPT !.entries[id].refs = @ + 1]
  ELSE c
CacheDecrement(c, id) ==
  IF CacheHas(c, id) /\ c.entries[id].refs > 0
  THEN [c EXCEPT !.entries[id].refs = @ - 1]
  ELSE c

\* delete(id): remove unconditionally; an absent id is tolerated.
CacheDelete(c, id) ==
  [entries |-> Drop(c.entries, id), lru |-> Without(c.lru, id)]

(***************************************************************************)
(* Chains.  A chain is made by get with the keys the resolver found (the   *)
(* public key is Null for a passive reference, the secret key is Null for  *)
(* a chain that is only read) and carries the closure state of get: the    *)
(* chainOpts get was called with, errored, and whether the once('error')   *)
(* listener is still attached.                                             *)
(***************************************************************************)
NewChain(id, keys, chainOpts) ==
  [id |-> id, key |-> keys.publicKey, secretKey |-> keys.secretKey,
   opts |-> chainOpts, ready |-> FALSE, errored |-> FALSE,
   onerror |-> TRUE, failed |-> FALSE, closeSt |-> "open", closeCbs |-> {},
   waits |-> 1, continues |-> 0, tick |-> FALSE]

\* chain.discoveryKey: the tag of the chain's public key, which a chain made
\* without a key only learns when it has loaded (ready).
ChainDKey(ch) ==
  IF ch.key # Null THEN discoveryKey(ch.key)
  ELSE IF ch.ready THEN decodeKey(ch.id)
  ELSE Null

\* chain.close(cb): start closing (a closed chain stays closed) and remember
\* whose callback waits for the outcome.
CloseChain(ch, who) ==
  IF ch.closeSt = "closed" THEN ch
  ELSE [ch EXCEPT !.closeSt = "closing",
                  !.closeCbs = IF who = "user" THEN @ ELSE @ \cup {who}]

\* The RefPool close callback (constructor): each evicted chain is closed.
CloseEvicted(chs, evicted) ==
  [i \in DOMAIN chs |->
     IF i \in evicted THEN CloseChain(chs[i], "evict") ELSE chs[i]]

(***************************************************************************)
(* InnerChainstore.get(chainOpts): the error thrown, the chain returned,   *)
(* and the chains and the cache afterwards.                                *)
(***************************************************************************)
\* Mutant of CachedChain: get never finds the id in the cache.
CachedChain_NoLookup(id) == 0

\* this.cache.get(id) of get: the cached chain, 0 when there is none.
CachedChain(id) == CacheValue(cache, id)

\* Mutant of IsOpened: get does not check that the engine is open.
IsOpened_Unchecked == TRUE

\* this.opened, as get reads it.
IsOpened == engine = "opened"

InnerGet(chainOpts, rnd) ==
  IF ~IsOpened
  THEN [threw |-> "NotOpen", ret |-> 0, chains |-> chains, cache |-> cache]
  ELSE
    LET keys == generateKeys(chainOpts, rnd)
        id == encodeKey(keys.discoveryKey)
        n == Len(chains) + 1
    IN  IF keys.throws # ""
        THEN [threw |-> keys.throws, ret |-> 0, chains |-> chains, cache |-> cache]
        ELSE IF CachedChain(id) # 0
        THEN [threw |-> "", ret |-> CachedChain(id), chains |-> chains,
              cache |-> CacheTouch(cache, id)]
        ELSE [threw |-> "", ret |-> n,
              chains |-> CloseEvicted(Append(chains, NewChain(id, keys, chainOpts)),
                                      CacheEvicted(cache, id, n)),
              cache |-> CacheSet(cache, id, n)]

(***************************************************************************)
(* Chainstore (a view): _maybeIncrement, get, default.                     *)
(***************************************************************************)
\* _maybeIncrement(chain): one reference per id this view has not opened yet.
MaybeIncrement(v, c, chs, ca) ==
  LET id == encodeKey(ChainDKey(chs[c]))
  IN  IF id \in DOMAIN owned[v]
      THEN [owned |-> owned, cache |-> ca]
      ELSE [owned |-> [owned EXCEPT ![v] = Put(@, id, c)],
            cache |-> CacheIncrement(ca, id)]

\* The options get is called with.
KeyForms == {ExternalKey, encodeKey(ExternalKey)}
GetOpts ==
  {RawOpts(k) : k \in KeyForms}
    \cup {Obj(Null, k, NoName, FALSE, Null) : k \in KeyForms}
    \cup {Obj(Null, Null, NoName, FALSE, encodeKey(discoveryKey(k))) : k \in {ExternalKey}}
    \cup {Obj(Null, Null, NoName, FALSE, discoveryKey(k)) : k \in {ExternalKey, Buf(NameSeed("a"))}}
    \cup {Obj(ExternalKey, Null, NoName, FALSE, Null),
          Obj(Null, Null, "a", FALSE, Null),
          Obj(Null, Null, NoName, TRUE, Null),
          EmptyOpts}
DefaultOpts == {EmptyOpts, RawOpts(ExternalKey), RawOpts(encodeKey(ExternalKey))}

\* A random name is never drawn twice.
FreshName(rnd) ==
  \A i \in ChainIds : chains[i].id # encodeKey(generateKeyPair(rnd).discoveryKey)

\* `if (Buffer.isBuffer(chainOpts)) chainOpts = { key: chainOpts }` of get
\* and default: raw bytes become an object, a string is left as it is.
WrapBuffer(chainOpts) ==
  IF chainOpts.t = "raw" /\ chainOpts.key.t = "buf"
  THEN Obj(Null, chainOpts.key, NoName, FALSE, Null)
  ELSE chainOpts

\* { ...chainOpts, name }: the object with its name replaced.  Spreading a
\* string yields its characters under their indices, none of which is a
\* field the resolver reads.
WithName(chainOpts, name) ==
  IF chainOpts.t = "raw"
  THEN Obj(Null, Null, name, FALSE, Null)
  ELSE Obj(chainOpts.keyPair, chainOpts.key, name, chainOpts.default,
           chainOpts.discoveryKey)

\* Chainstore.get(chainOpts)
ViewGet(v, chainOpts, rnd) ==
  LET r == InnerGet(WrapBuffer(chainOpts), rnd)
      m == MaybeIncrement(v, r.ret, r.chains, r.cache)
  IN  /\ Len(r.chains) <= MaxChains
      /\ chains' = r.chains
      /\ threw' = r.threw
      /\ ret' = r.ret
      /\ IF r.threw # ""
         THEN UNCHANGED <<cache, owned, got>>
         ELSE /\ cache' = m.cache
              /\ owned' = m.owned
              /\ got' = [got EXCEPT ![v] = @ \cup {r.ret}]
      /\ UNCHANGED <<engine, viewClosed, disk>>
      /\ UNCHANGED replVars
      /\ UNCHANGED closeVars
      /\ answer' = ""
      /\ UNCHANGED feedVars
      /\ UNCHANGED keyVars

Get(v, chainOpts, rnd) ==
  /\ ~viewClosed[v]
  /\ generateKeys(chainOpts, rnd).name = rnd => FreshName(rnd)
  /\ ViewGet(v, chainOpts, rnd)

\* Chainstore.default(chainOpts) = get({ ...chainOpts, name: this.name })
Default(v, chainOpts) ==
  /\ ~viewClosed[v]
  /\ ViewGet(v, WithName(WrapBuffer(chainOpts), ViewName(v)), "rnd")

(***************************************************************************)
(* The queries isLoaded and isExternal (a view forwards them to the        *)
(* engine).  Neither checks that the engine is open; options that name a   *)
(* chain by its name are resolved with the master key, so those are asked  *)
(* once it is there.                                                       *)
(***************************************************************************)
Resolvable(chainOpts, rnd) ==
  generateKeys(chainOpts, rnd).name # NoName => masterKey # NoKey

\* Mutant of LoadedAnswer: the id is looked up without being encoded.
LoadedAnswer_Unencoded(chainOpts, rnd) ==
  CacheHas(cache, generateKeys(chainOpts, rnd).discoveryKey)

\* InnerChainstore.isLoaded: this.cache.has(encodeKey(discoveryKey)).
LoadedAnswer(chainOpts, rnd) ==
  CacheHas(cache, encodeKey(generateKeys(chainOpts, rnd).discoveryKey))

IsLoaded(v, chainOpts, rnd) ==
  /\ Resolvable(chainOpts, rnd)
  /\ generateKeys(chainOpts, rnd).name = rnd => FreshName(rnd)
  /\ IF generateKeys(chainOpts, rnd).throws # ""
     THEN threw' = generateKeys(chainOpts, rnd).throws /\ answer' = ""
     ELSE /\ threw' = ""
          /\ answer' = IF LoadedAnswer(chainOpts, rnd) THEN "true" ELSE "false"
  /\ ret' = 0
  /\ UNCHANGED <<coreVars, replVars, closeVars, got, feedVars, keyVars>>

\* this._cache of InnerChainstore: the constructor assigns this.cache, and
\* nothing assigns _cache, so the field reads as undefined.
UnderscoreCache == Null

\* InnerChainstore.isExternal: this._cache.entry(id), then entry.refs !== 0.
\* Calling a method of undefined throws a TypeError.
IsExternal(v, chainOpts, rnd) ==
  /\ Resolvable(chainOpts, rnd)
  /\ generateKeys(chainOpts, rnd).name = rnd => FreshName(rnd)
  /\ LET id == encodeKey(generateKeys(chainOpts, rnd).discoveryKey)
     IN  IF generateKeys(chainOpts, rnd).throws # ""
         THEN threw' = generateKeys(chainOpts, rnd).throws /\ answer' = ""
         ELSE IF UnderscoreCache = Null
         THEN threw' = "TypeError" /\ answer' = ""
         ELSE /\ threw' = ""
              /\ answer' = IF CacheHas(UnderscoreCache, id)
                              /\ CacheEntryRefs(UnderscoreCache, id) # 0
                           THEN "true" ELSE "false"
  /\ ret' = 0
  /\ UNCHANGED <<coreVars, replVars, closeVars, got, feedVars, keyVars>>

(***************************************************************************)
(* Engine open (Nanoresource.open -> _open).                               *)
(***************************************************************************)
OpenStart ==
  /\ engine = "new"
  /\ engine' = "opening"
  /\ ret' = 0 /\ threw' = ""
  /\ UNCHANGED got /\ answer' = ""
  /\ UNCHANGED feedVars
  /\ UNCHANGED keyVars
  /\ UNCHANGED <<chains, cache, owned, viewClosed, disk>>
  /\ UNCHANGED replVars
  /\ UNCHANGED closeVars

\* The master_key file: absent (size 0), or holding `size` bytes.
NoFile == [size |-> 0, bytes |-> NoKey]
KeyFileOf(mk) == [size |-> 32, bytes |-> mk]

\* _open, when it succeeds: a master key already in memory is used as it
\* is; a file that is absent or shorter than 32 bytes makes _open draw 32
\* random bytes and write them; a longer file is read.
OpenOk ==
  IF masterKey # NoKey THEN UNCHANGED keyVars
  ELSE IF keyFile.size < 32
  THEN \E mk \in RandomKeys : masterKey' = mk /\ keyFile' = KeyFileOf(mk)
  ELSE masterKey' = keyFile.bytes /\ keyFile' = keyFile

\* _open, when it calls back with an error: stat or read failed (nothing
\* is set), the write of the new key failed (the key is in memory, the
\* file is not written), or the close after the write or the read failed.
OpenFailed ==
  /\ masterKey = NoKey
  /\ \/ UNCHANGED keyVars
     \/ /\ keyFile.size < 32
        /\ \E mk \in RandomKeys :
             masterKey' = mk /\ keyFile' \in {keyFile, KeyFileOf(mk)}
     \/ /\ keyFile.size >= 32
        /\ masterKey' = keyFile.bytes /\ keyFile' = keyFile

\* _open calls back: with an error the engine stays unopened.
OpenDone(ok) ==
  /\ engine = "opening"
  /\ engine' = IF ok THEN "opened" ELSE "new"
  /\ IF ok THEN OpenOk ELSE OpenFailed
  /\ ret' = 0 /\ threw' = ""
  /\ UNCHANGED got /\ answer' = ""
  /\ UNCHANGED feedVars
  /\ UNCHANGED <<chains, cache, owned, viewClosed, disk>>
  /\ UNCHANGED replVars
  /\ UNCHANGED closeVars

(***************************************************************************)
(* Bags of (chain, stream) pairs: the count saturates at 2 ("twice or      *)
(* more").                                                                 *)
(***************************************************************************)
Count(bag, c, s) == IF <<c, s>> \in DOMAIN bag THEN bag[<<c, s>>] ELSE 0
BagAdd(bag, c, s) ==
  Put(bag, <<c, s>>, IF Count(bag, c, s) >= 2 THEN 2 ELSE Count(bag, c, s) + 1)
BagRemove(bag, c, s) ==
  IF Count(bag, c, s) <= 1 THEN Drop(bag, <<c, s>>)
  ELSE Put(bag, <<c, s>>, Count(bag, c, s) - 1)
RECURSIVE BagAddAll(_, _, _)
BagAddAll(bag, cs, s) ==
  IF cs = <<>> THEN bag ELSE BagAddAll(BagAdd(bag, Head(cs), s), Tail(cs), s)

\* A set as a sequence, in some order.
RECURSIVE SetToSeq(_)
SetToSeq(S) ==
  IF S = {} THEN <<>>
  ELSE LET x == CHOOSE y \in S : TRUE IN <<x>> \o SetToSeq(S \ {x})

(***************************************************************************)
(* The observers get wires on a new chain: onready, onerror, onclose.      *)
(***************************************************************************)
\* _injectIntoReplicationStreams(chain): _replicateChain for every active
\* stream, which registers a chain.ready callback.
\* Mutant of InjectIntoReplicationStreams: a new chain reaches no stream.
InjectIntoReplicationStreams_None(c, cbs) == cbs

RECURSIVE InjectInto(_, _, _)
InjectInto(cbs, c, ss) ==
  IF ss = <<>> THEN cbs ELSE InjectInto(BagAdd(cbs, c, Head(ss)), c, Tail(ss))
InjectIntoReplicationStreams(c, cbs) == InjectInto(cbs, c, replStreams)

\* Mutant of EmitFeed: the feed is emitted for a chain that errored too.
EmitFeed_Errored(fs, c) ==
  Append(fs, [chain |-> c, opts |-> chains[c].opts])

\* onready: `if (errored) return`, else self.emit('feed', chain, chainOpts)
\* with the chainOpts get was called with.
EmitFeed(fs, c) ==
  IF chains[c].errored THEN fs
  ELSE Append(fs, [chain |-> c, opts |-> chains[c].opts])

\* The 'feed' listener of every Chainstore whose _unlisten has not run:
\* onfeed = feed => this.emit('feed', feed).  It takes the first argument
\* of the engine's event and emits it alone, so the listeners of the view
\* are called with the chain and nothing else (Null stands for undefined).
RelayFeed(vfs, c) ==
  IF chains[c].errored THEN vfs
  ELSE [v \in Views |->
          IF viewClosed[v] THEN vfs[v]
          ELSE Append(vfs[v], [chain |-> c, opts |-> Null])]

\* Mutant of GateAfterReady: onready schedules the release of the gate for
\* a chain that errored too.
GateAfterReady_Always(ch) == TRUE

\* onready: `if (errored) return`, else (last statement)
\* process.nextTick(() => chain.ifAvailable.continue()) is scheduled.
GateAfterReady(ch) == IF ch.errored THEN ch.tick ELSE TRUE

\* The chain emits 'ready'.  onready: nothing if the chain errored before;
\* else the error listener is removed and the chain is injected.  A chain
\* made without a key loads only if its key file is on disk; a chain made
\* with a key creates its files (createIfMissing).
ChainReady(c) ==
  /\ c \in ChainIds
  /\ ~chains[c].ready
  /\ chains[c].closeSt # "closed"
  /\ chains[c].key # Null \/ chains[c].id \in disk
  /\ chains' = [chains EXCEPT ![c].ready = TRUE,
                              ![c].onerror = IF chains[c].errored THEN @ ELSE FALSE,
                              ![c].tick = GateAfterReady(chains[c])]
  /\ disk' = disk \cup {chains[c].id}
  /\ readyCbs' = IF chains[c].errored THEN readyCbs
                 ELSE InjectIntoReplicationStreams(c, readyCbs)
  /\ feeds' = EmitFeed(feeds, c)
  /\ viewFeeds' = RelayFeed(viewFeeds, c)
  /\ ret' = 0 /\ threw' = ""
  /\ UNCHANGED got /\ answer' = ""
  /\ UNCHANGED keyVars
  /\ UNCHANGED <<engine, cache, owned, viewClosed>>
  /\ UNCHANGED <<streams, replStreams, replicated, checks, subClosed>>
  /\ UNCHANGED closeVars

\* The chain.ready callbacks of _replicateChain that run with an error:
\* `if (err) return`, the chain is not replicated.
FailCallbacks(cbs, c) == [k \in {x \in DOMAIN cbs : x[1] # c} |-> cbs[k]]

\* The chain fails to open and emits 'error' while the once('error')
\* listener is attached.  onerror: errored = true, and the id is deleted
\* from the cache; the pending ready callbacks run with the error.
ChainError(c) ==
  /\ c \in ChainIds
  /\ chains[c].onerror
  /\ chains[c].closeSt # "closed"
  /\ chains' = [chains EXCEPT ![c].errored = TRUE, ![c].onerror = FALSE,
                              ![c].failed = TRUE, ![c].continues = @ + 1]
  /\ cache' = CacheDelete(cache, chains[c].id)
  /\ readyCbs' = FailCallbacks(readyCbs, c)
  /\ ret' = 0 /\ threw' = ""
  /\ UNCHANGED got /\ answer' = ""
  /\ UNCHANGED feedVars
  /\ UNCHANGED keyVars
  /\ UNCHANGED <<engine, owned, viewClosed, disk>>
  /\ UNCHANGED <<streams, replStreams, replicated, checks, subClosed>>
  /\ UNCHANGED closeVars

\* The tick onready scheduled: chain.ifAvailable.continue().
GateTick(c) ==
  /\ c \in ChainIds
  /\ chains[c].tick
  /\ chains' = [chains EXCEPT ![c].tick = FALSE, ![c].continues = @ + 1]
  /\ ret' = 0 /\ threw' = ""
  /\ UNCHANGED got /\ answer' = ""
  /\ UNCHANGED feedVars
  /\ UNCHANGED keyVars
  /\ UNCHANGED <<engine, cache, owned, viewClosed, disk>>
  /\ UNCHANGED replVars
  /\ UNCHANGED closeVars

\* The chain emits its first 'error' after it became ready: onready has
\* removed the once('error') listener (chain.removeListener('error',
\* onerror)), so no code of get runs and the engine's state stays as it is.
ChainErrorLate(c) ==
  /\ c \in ChainIds
  /\ chains[c].ready /\ ~chains[c].onerror
  /\ ~chains[c].failed
  /\ chains[c].closeSt # "closed"
  /\ chains' = [chains EXCEPT ![c].failed = TRUE]
  /\ ret' = 0 /\ threw' = ""
  /\ UNCHANGED got /\ answer' = ""
  /\ UNCHANGED feedVars
  /\ UNCHANGED keyVars
  /\ UNCHANGED <<engine, cache, owned, viewClosed, disk>>
  /\ UNCHANGED replVars
  /\ UNCHANGED closeVars

\* The user closes a chain it holds.
UserCloseChain(c) ==
  /\ c \in ChainIds
  /\ chains[c].closeSt = "open"
  /\ chains' = [chains EXCEPT ![c] = CloseChain(@, "user")]
  /\ ret' = 0 /\ threw' = ""
  /\ UNCHANGED got /\ answer' = ""
  /\ UNCHANGED feedVars
  /\ UNCHANGED keyVars
  /\ UNCHANGED <<engine, cache, owned, viewClosed, disk>>
  /\ UNCHANGED replVars
  /\ UNCHANGED closeVars

(***************************************************************************)
(* InnerChainstore._close and the chain close callbacks.                   *)
(***************************************************************************)
NotClosing ==
  [st |-> "none", remaining |-> 0, error |-> 0, result |-> 0,
   chainsAtClose |-> {}, streamsAtClose |-> {}, failed |-> <<>>]

\* Mutant of CloseError: only the first error is kept.
CloseError_First(error, c, failed) == IF failed /\ error = 0 THEN c ELSE error

\* The callback _close gives to chain.close: `if (err) error = err`.
CloseError(error, c, failed) == IF failed THEN c ELSE error

\* Mutant of CloseCallback: the first chain to call back ends the close.
CloseCallback_Early(cl, c, failed) ==
  LET error == CloseError(cl.error, c, failed)
      log == IF failed THEN Append(cl.failed, c) ELSE cl.failed
  IN  [cl EXCEPT !.st = "done", !.remaining = 0, !.error = error,
                 !.result = error, !.failed = log]

\* One chain.close callback of _close: c closed, or failed with error c.
CloseCallback(cl, c, failed) ==
  LET error == CloseError(cl.error, c, failed)
      log == IF failed THEN Append(cl.failed, c) ELSE cl.failed
  IN  IF cl.remaining = 1
      THEN [cl EXCEPT !.st = "done", !.remaining = 0, !.error = error,
                      !.result = error, !.failed = log]
      ELSE [cl EXCEPT !.remaining = @ - 1, !.error = error, !.failed = log]

\* A chain close ends.  On success the chain emits 'close' (onclose deletes
\* its id from the cache); every waiting callback gets the outcome.
ChainClosed(c, ok) ==
  /\ c \in ChainIds
  /\ chains[c].closeSt = "closing"
  /\ chains' = [chains EXCEPT ![c].closeSt = IF ok THEN "closed" ELSE "failed",
                              ![c].closeCbs = {}]
  /\ cache' = IF ok THEN CacheDelete(cache, chains[c].id) ELSE cache
  /\ closing' = IF "engine" \in chains[c].closeCbs
                THEN CloseCallback(closing, c, ~ok)
                ELSE closing
  /\ ret' = 0 /\ threw' = ""
  /\ UNCHANGED got /\ answer' = ""
  /\ UNCHANGED feedVars
  /\ UNCHANGED keyVars
  /\ UNCHANGED <<engine, owned, viewClosed, disk, teardown>>
  /\ UNCHANGED replVars

\* The chains the cache holds (this.cache.entries.values()).
CachedChains(c) == {c.entries[id].value : id \in DOMAIN c.entries}

\* Mutant of DestroyStreams: _close leaves the streams alone.
DestroyStreams_None(strs, list) == strs

\* stream.destroy() for every entry of _replicationStreams.
DestroyStreams(strs, list) ==
  [i \in DOMAIN strs |->
     IF i \in Range(list) THEN [strs[i] EXCEPT !.destroyed = TRUE] ELSE strs[i]]

\* The collaborator calls of _close in program order: the streams are
\* destroyed, then (when the cache is not empty) the chains are closed.
TeardownCalls(list, chs) ==
  <<[call |-> "destroy", who |-> Range(list)]>>
    \o (IF chs = {} THEN <<>> ELSE <<[call |-> "close", who |-> chs]>>)

\* Chainstore._close of the root view: this.inner.close(cb) -> _close(cb).
CloseRoot ==
  /\ ~viewClosed[Root]
  /\ engine = "opened"
  /\ closing.st = "none"
  /\ viewClosed' = [viewClosed EXCEPT ![Root] = TRUE]
  /\ streams' = DestroyStreams(streams, replStreams)
  /\ teardown' = TeardownCalls(replStreams, CachedChains(cache))
  /\ chains' = [i \in DOMAIN chains |->
                  IF i \in CachedChains(cache)
                  THEN CloseChain(chains[i], "engine") ELSE chains[i]]
  /\ closing' = [NotClosing EXCEPT
                   !.st = IF CacheSizeOf(cache) = 0 THEN "tick" ELSE "waiting",
                   !.remaining = CacheSizeOf(cache),
                   !.chainsAtClose = CachedChains(cache),
                   !.streamsAtClose = Range(replStreams)]
  /\ ret' = 0 /\ threw' = ""
  /\ UNCHANGED got /\ answer' = ""
  /\ UNCHANGED feedVars
  /\ UNCHANGED keyVars
  /\ UNCHANGED <<engine, cache, owned, disk>>
  /\ UNCHANGED <<replStreams, readyCbs, replicated, checks, subClosed>>

\* process.nextTick(cb, null) of _close with an empty cache.
CloseTick ==
  /\ closing.st = "tick"
  /\ closing' = [closing EXCEPT !.st = "done", !.result = 0]
  /\ ret' = 0 /\ threw' = ""
  /\ UNCHANGED got /\ answer' = ""
  /\ UNCHANGED feedVars
  /\ UNCHANGED keyVars
  /\ UNCHANGED coreVars
  /\ UNCHANGED replVars
  /\ UNCHANGED teardown

\* Iterating a Map yields its [key, value] entries: what `for (const dkey
\* of this._openedChains)` binds dkey to is an entry, which is no id.
MapIterate(m) == {[t |-> "entry", v |-> id.v] : id \in DOMAIN m}

RECURSIVE DecrementAll(_, _)
DecrementAll(c, keys) ==
  IF keys = {} THEN c
  ELSE LET k == CHOOSE x \in keys : TRUE
       IN  DecrementAll(CacheDecrement(c, k), keys \ {k})

\* Chainstore._close of a namespaced view.
CloseView(v) ==
  /\ HasParent(v)
  /\ ~viewClosed[v]
  /\ viewClosed' = [viewClosed EXCEPT ![v] = TRUE]
  /\ cache' = DecrementAll(cache, MapIterate(owned[v]))
  /\ ret' = 0 /\ threw' = ""
  /\ UNCHANGED got /\ answer' = ""
  /\ UNCHANGED feedVars
  /\ UNCHANGED keyVars
  /\ UNCHANGED <<engine, chains, owned, disk>>
  /\ UNCHANGED replVars
  /\ UNCHANGED closeVars

(***************************************************************************)
(* Replication.                                                            *)
(***************************************************************************)
\* Mutant of allReferenced: the zero-ref entries are yielded too.
allReferenced_All(c) ==
  LET ids == SetToSeq(DOMAIN c.entries)
  IN  [i \in 1..Len(ids) |-> c.entries[ids[i]].value]

\* allReferenced(cache): the chains of the entries with refs > 0.
allReferenced(c) ==
  LET ids == SetToSeq({id \in DOMAIN c.entries : c.entries[id].refs > 0})
  IN  [i \in 1..Len(ids) |-> c.entries[ids[i]].value]

\* The chains Chainstore.replicate hands to the engine: allReferenced(cache)
\* for the root view, the values of _openedChains for a namespace.
ReplicateChains(v) ==
  IF ~HasParent(v)
  THEN allReferenced(cache)
  ELSE LET ids == SetToSeq(DOMAIN owned[v])
       IN  [i \in 1..Len(ids) |-> owned[v][ids[i]]]

\* Chainstore.replicate -> InnerChainstore.replicate: a new stream, a ready
\* callback per chain handed over, and the stream joins the active list.
Replicate(v) ==
  /\ Len(streams) < MaxStreams
  /\ LET s == Len(streams) + 1
     IN  /\ streams' = Append(streams, [closed |-> FALSE, destroyed |-> FALSE,
                                        by |-> v, born |-> Len(chains)])
         /\ replStreams' = Append(replStreams, s)
         /\ readyCbs' = BagAddAll(readyCbs, ReplicateChains(v), s)
  /\ ret' = 0 /\ threw' = ""
  /\ UNCHANGED got /\ answer' = ""
  /\ UNCHANGED feedVars
  /\ UNCHANGED keyVars
  /\ UNCHANGED coreVars
  /\ UNCHANGED <<replicated, checks, subClosed>>
  /\ UNCHANGED closeVars

\* A chain.ready callback of _replicateChain runs: chain.replicate(stream).
FireReadyCb(c, s) ==
  /\ Count(readyCbs, c, s) > 0
  /\ chains[c].ready
  /\ readyCbs' = BagRemove(readyCbs, c, s)
  /\ replicated' = BagAdd(replicated, c, s)
  /\ ret' = 0 /\ threw' = ""
  /\ UNCHANGED got /\ answer' = ""
  /\ UNCHANGED feedVars
  /\ UNCHANGED keyVars
  /\ UNCHANGED coreVars
  /\ UNCHANGED <<streams, replStreams, checks, subClosed>>
  /\ UNCHANGED closeVars

\* list.splice(list.indexOf(x), 1): the entry of x is removed; when x is not
\* in the list indexOf is -1 and splice removes the last entry.
Splice(list, x) ==
  IF x \in Range(list) THEN Without(list, x)
  ELSE SubSeq(list, 1, Len(list) - 1)

\* Mutant of OnClose: the entry is spliced out at every event.
OnClose_Unguarded(list, s, closed) == Splice(list, s)

\* onclose of replicate: `if (!closed)` the stream's entry is spliced out of
\* _replicationStreams (and closed is set).
OnClose(list, s, closed) ==
  IF closed THEN list ELSE Splice(list, s)

\* The stream emits finish, end or close.  onclose: the first time, the
\* stream's entry is spliced out of the active list.
StreamEvent(s) ==
  /\ s \in StreamIds
  /\ streams' = [streams EXCEPT ![s].closed = TRUE]
  /\ replStreams' = OnClose(replStreams, s, streams[s].closed)
  /\ ret' = 0 /\ threw' = ""
  /\ UNCHANGED got /\ answer' = ""
  /\ UNCHANGED feedVars
  /\ UNCHANGED keyVars
  /\ UNCHANGED coreVars
  /\ UNCHANGED <<readyCbs, replicated, checks, subClosed>>
  /\ UNCHANGED closeVars

\* The discovery keys a peer announces.
AnnouncedKeys == {discoveryKey(ExternalKey), discoveryKey(Buf(NameSeed("a")))}

\* The stream emits 'discovery-key': ondiscoverykey calls _checkIfExists,
\* which answers true on the next tick if the cache has the id and reads the
\* key file otherwise.
Announce(s, dkey) ==
  /\ s \in StreamIds
  /\ \A ck \in checks : ~(ck.stream = s /\ ck.dkey = dkey)
  /\ <<s, dkey>> \notin subClosed
  /\ checks' = checks \cup
       {[stream |-> s, dkey |-> dkey, cached |-> CacheHas(cache, encodeKey(dkey))]}
  /\ ret' = 0 /\ threw' = ""
  /\ UNCHANGED got /\ answer' = ""
  /\ UNCHANGED feedVars
  /\ UNCHANGED keyVars
  /\ UNCHANGED coreVars
  /\ UNCHANGED <<streams, replStreams, readyCbs, replicated, subClosed>>
  /\ UNCHANGED closeVars

\* The outcomes _checkIfExists can call back with.
CheckOutcomes(ck) ==
  IF ck.cached THEN {"true"}
  ELSE IF encodeKey(ck.dkey) \in disk THEN {"true", "err"}
  ELSE {"false", "err"}

\* Mutant of Exists: only `exists` is looked at, an error counts as found.
Exists_ErrorIgnored(outcome) == outcome # "false"

\* `if (err || !exists) return mainStream.close(dkey)`: the chain is opened
\* only when the check succeeded and found the key file.
Exists(outcome) == outcome = "true"

\* Mutant of StreamClosed: the callback does not look at `closed`.
StreamClosed_Ignored(s) == FALSE

\* `if (closed) return` of the callback: the closure flag onclose sets.
StreamClosed(s) == streams[s].closed

\* The callback of _checkIfExists in ondiscoverykey.
CheckDone(ck, outcome) ==
  /\ ck \in checks
  /\ outcome \in CheckOutcomes(ck)
  /\ checks' = checks \ {ck}
  /\ LET r == InnerGet(Obj(Null, Null, NoName, FALSE, ck.dkey), "rnd")
     IN  IF StreamClosed(ck.stream)
         THEN /\ ret' = 0 /\ threw' = ""
              /\ UNCHANGED <<chains, cache, readyCbs, subClosed>>
         ELSE IF ~Exists(outcome)
         THEN /\ subClosed' = subClosed \cup {<<ck.stream, ck.dkey>>}
              /\ ret' = 0 /\ threw' = ""
              /\ UNCHANGED <<chains, cache, readyCbs>>
         ELSE /\ Len(r.chains) <= MaxChains
              /\ chains' = r.chains
              /\ cache' = r.cache
              /\ ret' = r.ret /\ threw' = r.threw
              /\ readyCbs' = IF r.threw # "" THEN readyCbs
                             ELSE BagAdd(readyCbs, r.ret, ck.stream)
              /\ UNCHANGED subClosed
  /\ UNCHANGED <<engine, owned, viewClosed, disk, got>>
  /\ answer' = ""
  /\ UNCHANGED feedVars
  /\ UNCHANGED keyVars
  /\ UNCHANGED <<streams, replStreams, replicated>>
  /\ UNCHANGED closeVars

(***************************************************************************)
(* The specification.                                                      *)
(***************************************************************************)
\* The storage a store is opened on may already hold a chain.
InitialDisks == {{}, {encodeKey(discoveryKey(ExternalKey))}}

\* The storage may hold no master_key file, a short one, or a whole one.
InitialKeyFiles == {NoFile, [size |-> 16, bytes |-> 1], KeyFileOf(1), KeyFileOf(2)}

Init ==
  /\ engine = "new"
  /\ chains = <<>>
  /\ cache = EmptyCache
  /\ owned = [v \in Views |-> EmptyMap]
  /\ viewClosed = [v \in Views |-> FALSE]
  /\ disk \in InitialDisks
  /\ ret = 0
  /\ threw = ""
  /\ streams = <<>>
  /\ replStreams = <<>>
  /\ readyCbs = EmptyMap
  /\ replicated = EmptyMap
  /\ checks = {}
  /\ subClosed = {}
  /\ closing = NotClosing
  /\ teardown = <<>>
  /\ got = [v \in Views |-> {}]
  /\ answer = ""
  /\ feeds = <<>>
  /\ viewFeeds = [v \in Views |-> <<>>]
  /\ masterKey = NoKey
  /\ keyFile \in InitialKeyFiles

\* A new store is constructed on the storage of a store that has closed:
\* the storage keeps the master_key file and the chain files, every field
\* starts as the constructors leave it.
Reopen ==
  /\ closing.st = "done"
  /\ engine' = "new"
  /\ chains' = <<>>
  /\ cache' = EmptyCache
  /\ owned' = [v \in Views |-> EmptyMap]
  /\ viewClosed' = [v \in Views |-> FALSE]
  /\ ret' = 0 /\ threw' = "" /\ answer' = ""
  /\ streams' = <<>>
  /\ replStreams' = <<>>
  /\ readyCbs' = EmptyMap
  /\ replicated' = EmptyMap
  /\ checks' = {}
  /\ subClosed' = {}
  /\ closing' = NotClosing
  /\ teardown' = <<>>
  /\ got' = [v \in Views |-> {}]
  /\ feeds' = <<>>
  /\ viewFeeds' = [v \in Views |-> <<>>]
  /\ masterKey' = NoKey
  /\ UNCHANGED <<disk, keyFile>>

Next ==
  \/ Reopen
  \/ OpenStart
  \/ \E ok \in BOOLEAN : OpenDone(ok)
  \/ \E v \in Views, o \in GetOpts, rnd \in RandomNames : Get(v, o, rnd)
  \/ \E v \in Views, o \in DefaultOpts : Default(v, o)
  \/ \E v \in Views, o \in GetOpts, rnd \in RandomNames : IsLoaded(v, o, rnd)
  \/ \E v \in Views, o \in GetOpts, rnd \in RandomNames : IsExternal(v, o, rnd)
  \/ \E c \in 1..MaxChains : ChainReady(c)
  \/ \E c \in 1..MaxChains : ChainError(c)
  \/ \E c \in 1..MaxChains : ChainErrorLate(c)
  \/ \E c \in 1..MaxChains : GateTick(c)
  \/ \E c \in 1..MaxChains : UserCloseChain(c)
  \/ \E c \in 1..MaxChains, ok \in BOOLEAN : ChainClosed(c, ok)
  \/ CloseRoot
  \/ CloseTick
  \/ \E v \in Views : CloseView(v)
  \/ \E v \in Views : Replicate(v)
  \/ \E c \in 1..MaxChains, s \in 1..MaxStreams : FireReadyCb(c, s)
  \/ \E s \in 1..MaxStreams : StreamEvent(s)
  \/ \E s \in 1..MaxStreams, dkey \in AnnouncedKeys : Announce(s, dkey)
  \/ \E ck \in checks, outcome \in {"true", "false", "err"} : CheckDone(ck, outcome)

Spec == Init /\ [][Next]_vars

(***************************************************************************)
(* SpecRefs: the views and the cache -- get and default through the        *)
(* namespaced views, chain ready / error / close, eviction and view close. *)
(***************************************************************************)
RefViews == {"a", "b"}
\* A store opened on empty storage.
InitFresh == Init /\ disk = {}
\* A store opened on the storage of an earlier store: the master key is
\* there, chains are not.
InitKept == InitFresh /\ keyFile = KeyFileOf(1)
NextRefs ==
  \/ OpenStart
  \/ \E ok \in BOOLEAN : OpenDone(ok)
  \/ \E v \in RefViews, o \in GetOpts \ {EmptyOpts} : Get(v, o, "rnd")
  \/ \E v \in RefViews : Default(v, EmptyOpts)
  \/ \E c \in 1..MaxChains : ChainReady(c)
  \/ \E c \in 1..MaxChains : ChainError(c)
  \/ \E c \in 1..MaxChains : ChainClosed(c, TRUE)
  \/ \E v \in RefViews : CloseView(v)
SpecRefs == InitKept /\ [][NextRefs]_vars

\* The id the options of a get stand for, read off the options themselves:
\* the tag of the key bytes (raw or encoded, given as key or as key pair), the
\* tag of the key derived from the name, or the discovery key given.
IdOf(o) ==
  IF o.keyPair # Null THEN Str(o.keyPair.v + 10)
  ELSE IF o.key # Null THEN Str(o.key.v + 10)
  ELSE IF o.name # NoName THEN encodeKey(discoveryKey(DerivedKey(masterKey, o.name)))
  ELSE Str(o.discoveryKey.v)
ResolvingOpts == {o \in GetOpts : o # EmptyOpts /\ ~(o.default /\ o.name = NoName)}

\* C1 (deduplication): a get, through any view and with any shape of options
\* that stands for id d, made while the cache holds a chain for d, returns
\* that very chain and instantiates none -- whether the chain is ready or not.
C1_Dedup ==
  [][\A v \in RefViews, o \in ResolvingOpts :
       (CacheHas(cache, IdOf(o)) /\ Get(v, o, "rnd"))
         => /\ ret' = cache.entries[IdOf(o)].value
            /\ chains' = chains
            /\ threw' = ""]_vars

\* C1 witness: the last get returned a chain that is not ready yet and that
\* both views now own: the second view was served from the cache.
C1_Witness ==
  /\ ret # 0
  /\ ~chains[ret].ready
  /\ \E id \in DOMAIN owned["a"] \cap DOMAIN owned["b"] :
       owned["a"][id] = ret /\ owned["b"][id] = ret

\* C2 (one reference per view and chain), stated for the chains made with a
\* public key while no view is closed: the refs of every cache entry is the
\* number of views that a get or default call returned its chain to.
C2_OneRefPerView ==
  (\A v \in Views : ~viewClosed[v]) =>
    \A id \in DOMAIN cache.entries :
      chains[cache.entries[id].value].key # Null =>
        cache.entries[id].refs =
          Cardinality({v \in Views : cache.entries[id].value \in got[v]})

\* C3 (pinning invariant): every id in the owned set of a view that is not
\* closed has a cache entry with refs >= 1.
C3_Pinned ==
  \A v \in Views :
    ~viewClosed[v] =>
      \A id \in DOMAIN owned[v] \ {Null} :
        CacheHas(cache, id) /\ cache.entries[id].refs >= 1

\* C4 (closing a namespaced view): the close decrements by exactly one the
\* refs of every cached chain the view owns and leaves every other entry,
\* the engine, the chains and the streams as they are.
C4_CloseViewDecrements ==
  [][\A v \in Views :
       CloseView(v) =>
         /\ DOMAIN cache'.entries = DOMAIN cache.entries
         /\ \A id \in DOMAIN cache.entries :
              cache'.entries[id].refs =
                IF id \in DOMAIN owned[v]
                THEN cache.entries[id].refs - 1
                ELSE cache.entries[id].refs
         /\ UNCHANGED <<engine, chains, streams, replStreams, closing>>]_vars

\* C7 (get before open): a get or default made while the engine has not
\* completed open throws NotOpen and changes neither the chains, nor the
\* cache, nor any owned set.
C7_NotOpenThrows ==
  [][\A v \in RefViews, o \in GetOpts :
       (engine # "opened" /\ (Get(v, o, "rnd") \/ Default(v, o)))
         => /\ threw' = "NotOpen"
            /\ ret' = 0
            /\ UNCHANGED <<chains, cache, owned, got>>]_vars

\* C7 witness: a get was refused while the engine was still opening.
C7_Witness == threw = "NotOpen" /\ engine = "opening"

(***************************************************************************)
(* SpecClose: the root view closes the engine -- streams, pinned chains,   *)
(* chain closes that succeed or fail, and the close callback.              *)
(***************************************************************************)
CloseOpts == {Obj(Null, ExternalKey, NoName, FALSE, Null),
              Obj(Null, Null, "a", FALSE, Null)}
NextClose ==
  \/ OpenStart
  \/ \E ok \in BOOLEAN : OpenDone(ok)
  \/ \E o \in CloseOpts : Get(Root, o, "rnd")
  \/ Default(Root, EmptyOpts)
  \/ \E c \in 1..MaxChains : ChainReady(c)
  \/ \E c \in 1..MaxChains : UserCloseChain(c)
  \/ \E c \in 1..MaxChains, ok \in BOOLEAN : ChainClosed(c, ok)
  \/ streams = <<>> /\ Replicate(Root)
  \/ \E s \in 1..MaxStreams : StreamEvent(s)
  \/ CloseRoot
  \/ CloseTick
SpecClose == InitKept /\ [][NextClose]_vars

\* C5 (root close tears down in order and completely): once _close has run,
\* every stream that was in the active list is destroyed and the destroy
\* calls precede the chain close calls, which cover every cached chain; and
\* when the close callback reports success every chain that was in the cache
\* when close began is closed.
C5_Teardown ==
  closing.st # "none" =>
    /\ \A s \in closing.streamsAtClose : streams[s].destroyed
    /\ teardown # <<>>
    /\ teardown[1] = [call |-> "destroy", who |-> closing.streamsAtClose]
    /\ closing.chainsAtClose = {} => Len(teardown) = 1
    /\ closing.chainsAtClose # {} =>
         /\ Len(teardown) = 2
         /\ teardown[2] = [call |-> "close", who |-> closing.chainsAtClose]
    /\ \A c \in closing.chainsAtClose : chains[c].closeSt # "open"
    /\ (closing.st = "done" /\ closing.result = 0) =>
         \A c \in closing.chainsAtClose : chains[c].closeSt = "closed"

\* C5 witness: a close that destroyed a stream and closed two chains has
\* reported success.
C5_Witness ==
  /\ closing.st = "done" /\ closing.result = 0
  /\ closing.streamsAtClose # {}
  /\ Cardinality(closing.chainsAtClose) >= 2

\* C6 (first error): the close callback receives the error of the
\* first chain close that failed, or success when none failed.
C6_FirstError ==
  closing.st = "done" =>
    closing.result = IF closing.failed = <<>> THEN 0 ELSE Head(closing.failed)

\* C6 (last error): the close callback receives the error of the
\* chain close that failed last, or success when none failed.
C6_LastError ==
  closing.st = "done" =>
    closing.result = IF closing.failed = <<>> THEN 0
                     ELSE closing.failed[Len(closing.failed)]

\* C6 witness: two chain closes failed and the callback got the later error.
C6_Witness ==
  /\ closing.st = "done"
  /\ Len(closing.failed) = 2
  /\ closing.result = closing.failed[2]
  /\ closing.result # closing.failed[1]

(***************************************************************************)
(* SpecRepl: replication -- streams made by the root view and by a         *)
(* namespace, chains handed over at replicate and injected at ready.       *)
(***************************************************************************)
ReplViews == {Root, "a"}
ReplOpts == {Obj(Null, ExternalKey, NoName, FALSE, Null),
             Obj(Null, Null, "a", FALSE, Null)}
NextRepl ==
  \/ OpenStart
  \/ \E ok \in BOOLEAN : OpenDone(ok)
  \/ \E v \in ReplViews, o \in ReplOpts : Get(v, o, "rnd")
  \/ \E c \in 1..MaxChains : ChainReady(c)
  \/ \E c \in 1..MaxChains : ChainError(c)
  \/ \E v \in ReplViews : streams = <<>> /\ Replicate(v)
  \/ \E c \in 1..MaxChains, s \in 1..MaxStreams : FireReadyCb(c, s)
  \/ \E s \in 1..MaxStreams : StreamEvent(s)
SpecRepl == InitKept /\ [][NextRepl]_vars

\* The chains whose replication onto stream s is requested or under way.
Requested(cbs, s) == {c \in 1..MaxChains : Count(cbs, c, s) > 0}

\* C8 (lazy injection): when a chain signals ready, its replication is
\* requested on every stream of the active list; and no chain is replicated
\* onto a stream before it is ready.
C8_Injection ==
  /\ [][\A c \in 1..MaxChains :
          ChainReady(c) =>
            \A s \in Range(replStreams) : c \in Requested(readyCbs', s)]_vars
  /\ [](\A c \in ChainIds, s \in StreamIds :
          Count(replicated, c, s) > 0 => chains[c].ready)

\* C8 (lazy injection, chains that did not fail first): when a chain that
\* has emitted no error signals ready, its replication is requested on every
\* stream of the active list; and no chain is replicated onto a stream before
\* it is ready.
C8_InjectionUnlessErrored ==
  /\ [][\A c \in 1..MaxChains :
          (ChainReady(c) /\ ~chains[c].errored) =>
            \A s \in Range(replStreams) : c \in Requested(readyCbs', s)]_vars
  /\ [](\A c \in ChainIds, s \in StreamIds :
          Count(replicated, c, s) > 0 => chains[c].ready)

\* C8 witness: a chain made after the stream was, returned to the view that
\* made the stream, became ready without an error and is replicated on it.
C8_Witness ==
  \E s \in StreamIds, c \in ChainIds :
    /\ c > streams[s].born
    /\ c \in got[streams[s].by]
    /\ chains[c].ready /\ ~chains[c].errored
    /\ Count(replicated, c, s) > 0

\* C9 (replication set by view kind): the chains handed to the stream that
\* replicate makes are, for the root view, exactly the chains of the cache
\* entries with refs > 0 and, for a namespace, exactly the chains in its
\* owned set.
C9_ReplicationSet ==
  [][\A v \in Views :
       Replicate(v) =>
         Requested(readyCbs', Len(streams) + 1) =
           IF v = Root
           THEN {cache.entries[id].value :
                   id \in {i \in DOMAIN cache.entries : cache.entries[i].refs > 0}}
           ELSE {owned[v][id] : id \in DOMAIN owned[v]}]_vars

\* C9 witness: a stream made by the root view carries a chain that only the
\* namespace had got.
C9_Witness ==
  \E s \in StreamIds, c \in ChainIds :
    /\ streams[s].by = Root
    /\ c <= streams[s].born
    /\ c \in got["a"] \ got[Root]
    /\ Count(readyCbs, c, s) + Count(replicated, c, s) > 0

(***************************************************************************)
(* SpecDisc: discovery -- a stream made by the root view, the discovery    *)
(* keys a peer announces on it and the existence checks they start, on a   *)
(* store whose storage may already hold a chain.                           *)
(***************************************************************************)
NextDisc ==
  \/ OpenStart
  \/ \E ok \in BOOLEAN : OpenDone(ok)
  \/ \E o \in ReplOpts : Get(Root, o, "rnd")
  \/ \E c \in 1..MaxChains : ChainReady(c)
  \/ \E c \in 1..MaxChains : ChainClosed(c, TRUE)
  \/ streams = <<>> /\ Replicate(Root)
  \/ \E c \in 1..MaxChains, s \in 1..MaxStreams : FireReadyCb(c, s)
  \/ \E s \in 1..MaxStreams : StreamEvent(s)
  \/ \E s \in 1..MaxStreams, dkey \in AnnouncedKeys : Announce(s, dkey)
  \/ \E ck \in checks, outcome \in {"true", "false", "err"} : CheckDone(ck, outcome)
\* A store opened on storage that holds the master key and, maybe, a chain.
InitStored == Init /\ keyFile = KeyFileOf(1)
SpecDisc == InitStored /\ [][NextDisc]_vars

\* The existence check ck answered false or failed: that sub-channel is
\* closed and nothing else changes.
Refused(ck) ==
  /\ subClosed' = subClosed \cup {<<ck.stream, ck.dkey>>}
  /\ UNCHANGED <<chains, cache, streams, replStreams, readyCbs, replicated>>

\* The existence check ck answered true: the chain of that discovery key is
\* in the cache, it is what get returned, and its replication onto the
\* stream of the check is requested.
Served(ck) ==
  /\ threw' = ""
  /\ CacheHas(cache', encodeKey(ck.dkey))
  /\ ret' = cache'.entries[encodeKey(ck.dkey)].value
  /\ ret' \in Requested(readyCbs', ck.stream)
  /\ UNCHANGED <<subClosed, streams, replStreams>>

\* C10 (remote discovery-key requests): when the existence check of an
\* announced discovery key answers false or fails, the sub-channel is closed
\* and no chain is made, the cache and the stream list staying as they are;
\* when it answers true, the chain is obtained by get({discoveryKey}) and
\* replicated on that stream.
C10_Discovery ==
  [][\A ck \in checks, outcome \in {"true", "false", "err"} :
       CheckDone(ck, outcome) =>
         IF outcome = "true" THEN Served(ck) ELSE Refused(ck)]_vars

\* C10 (remote discovery-key requests, answered while the stream is open):
\* when the check completes after the stream has emitted finish, end or
\* close, nothing is done.  Otherwise: when it answers false or fails, the
\* sub-channel is closed and no chain is made, the cache and the stream list
\* staying as they are; when it answers true and the engine is opened, the
\* chain is obtained by get({discoveryKey}) and replicated on that stream;
\* when it answers true and the engine is not opened, get throws NotOpen and
\* nothing is replicated.
C10_DiscoveryOnOpenStream ==
  [][\A ck \in checks, outcome \in {"true", "false", "err"} :
       CheckDone(ck, outcome) =>
         IF streams[ck.stream].closed
         THEN UNCHANGED <<chains, cache, streams, replStreams, readyCbs,
                          replicated, subClosed>>
         ELSE IF outcome # "true" THEN Refused(ck)
         ELSE IF engine = "opened" THEN Served(ck)
         ELSE /\ threw' = "NotOpen"
              /\ UNCHANGED <<chains, cache, streams, replStreams, readyCbs,
                             replicated, subClosed>>]_vars

\* C10 witness: on one stream a sub-channel was closed after a check that
\* did not find the key, and a chain made from its discovery key alone is
\* in the cache, unpinned, with its replication on the stream requested.
C10_Witness ==
  \E s \in StreamIds, c \in ChainIds :
    /\ \E dkey \in AnnouncedKeys : <<s, dkey>> \in subClosed
    /\ chains[c].key = Null
    /\ CacheHas(cache, chains[c].id) /\ cache.entries[chains[c].id].refs = 0
    /\ Count(readyCbs, c, s) + Count(replicated, c, s) > 0

(***************************************************************************)
(* SpecQuery: isLoaded and isExternal asked of the root view and of a      *)
(* namespace, while chains are got, become ready or fail.                  *)
(***************************************************************************)
QueryViews == {Root, "a"}
\* The options of the queries: one of every shape the resolver tells apart.
QueryOpts ==
  {RawOpts(ExternalKey),
   Obj(Null, encodeKey(ExternalKey), NoName, FALSE, Null),
   Obj(ExternalKey, Null, NoName, FALSE, Null),
   Obj(Null, Null, NoName, FALSE, encodeKey(discoveryKey(ExternalKey))),
   Obj(Null, Null, "a", FALSE, Null),
   Obj(Null, Null, NoName, TRUE, Null),
   EmptyOpts}
NextQuery ==
  \/ OpenStart
  \/ \E ok \in BOOLEAN : OpenDone(ok)
  \/ \E v \in QueryViews, o \in ReplOpts : Get(v, o, "rnd")
  \/ \E c \in 1..MaxChains : ChainReady(c)
  \/ \E c \in 1..MaxChains : ChainError(c)
  \/ \E v \in QueryViews, o \in QueryOpts : IsLoaded(v, o, "rnd")
  \/ \E v \in QueryViews, o \in QueryOpts : IsExternal(v, o, "rnd")
SpecQuery == InitKept /\ [][NextQuery]_vars

\* C11 (isExternal): for every shape of options that resolves to an id,
\* isExternal returns true when the cache holds an entry for the id with
\* refs > 0 and false otherwise, and it does not fail.
C11_IsExternal ==
  [][\A v \in QueryViews, o \in QueryOpts \cap ResolvingOpts :
       IsExternal(v, o, "rnd") =>
         /\ threw' = ""
         /\ answer' = IF CacheHas(cache, IdOf(o)) /\ cache.entries[IdOf(o)].refs > 0
                      THEN "true" ELSE "false"]_vars

\* C12 (isLoaded): for every shape of options that resolves to an id,
\* isLoaded returns true exactly when the cache holds an entry for the id --
\* whether the chain is ready or not -- and false for options that stand
\* for a new random chain (options with `default` and no name, key or key
\* pair are refused with MissingName); it changes neither the cache
\* (membership, refs, order of use), nor the owned sets, nor the chains.
C12_IsLoaded ==
  [][\A v \in QueryViews, o \in QueryOpts :
       IsLoaded(v, o, "rnd") =>
         IF o \notin ResolvingOpts \cup {EmptyOpts}
         THEN threw' = "MissingName" /\ UNCHANGED <<cache, owned, chains, got>>
         ELSE
         /\ threw' = ""
         /\ answer' = IF o # EmptyOpts /\ CacheHas(cache, IdOf(o))
                      THEN "true" ELSE "false"
         /\ UNCHANGED <<cache, owned, chains, got>>]_vars

\* C12 witness: isLoaded answered true while the only chain there is was
\* not ready yet.
C12_Witness ==
  /\ answer = "true"
  /\ Len(chains) = 1 /\ ~chains[1].ready

(***************************************************************************)
(* SpecNames: the default chains of the root and of its namespaces.        *)
(***************************************************************************)
NextNames ==
  \/ OpenStart
  \/ \E ok \in BOOLEAN : OpenDone(ok)
  \/ \E v \in Views : Default(v, EmptyOpts)
  \/ \E c \in 1..MaxChains : ChainReady(c)
SpecNames == InitKept /\ [][NextNames]_vars

\* The views that namespace calls with different child names made from one
\* and the same view.
Siblings ==
  {p \in Views \X Views :
     /\ HasParent(p[1]) /\ HasParent(p[2])
     /\ ParentOf(p[1]) = ParentOf(p[2])
     /\ ChildOf(p[1]) # ChildOf(p[2])}

\* C13 (namespace isolation): two namespaces made from one view with
\* different child names have different names (the child name under the
\* root, parent name + ':' + child under a namespace), and their default
\* chains are different chains with different keys under different ids.
C13_NamespaceIsolation ==
  \A p \in Siblings :
    /\ ViewName(p[1]) # ViewName(p[2])
    /\ ViewName(p[1]) = IF ParentOf(p[1]) = Root THEN ChildOf(p[1])
                        ELSE ViewName(ParentOf(p[1])) \o ":" \o ChildOf(p[1])
    /\ \A c \in got[p[1]], e \in got[p[2]] :
         /\ c # e
         /\ chains[c].key # chains[e].key
         /\ chains[c].id # chains[e].id

\* C13 witness: the default chains of the namespaces "a" and "b" of the
\* namespace "a" are both in the cache.
C13_Witness ==
  /\ got["a/a"] # {} /\ got["a/b"] # {}
  /\ \A c \in got["a/a"] \cup got["a/b"] : CacheHas(cache, chains[c].id)

\* C14 (root default disjoint): for every namespace the root makes, the
\* default chain of the root and the default chain of the namespace are
\* different chains with different keys.
C14_RootDefaultDisjoint ==
  \A v \in Views :
    (ParentOf(v) = Root /\ v # Root /\ got[Root] # {} /\ got[v] # {}) =>
      /\ ViewName(v) # ViewName(Root)
      /\ \A c \in got[Root], e \in got[v] :
           c # e /\ chains[c].key # chains[e].key

(***************************************************************************)
(* SpecKeys: the master key over the lives of a store -- open (which may   *)
(* fail and be tried again), the default chain, close, and a new store on  *)
(* the same storage.                                                       *)
(***************************************************************************)
NextKeys ==
  \/ OpenStart
  \/ \E ok \in BOOLEAN : OpenDone(ok)
  \/ Default(Root, EmptyOpts)
  \/ \E c \in 1..MaxChains : ChainReady(c)
  \/ \E c \in 1..MaxChains : ChainClosed(c, TRUE)
  \/ CloseRoot
  \/ CloseTick
  \/ Reopen
SpecKeys == InitFresh /\ [][NextKeys]_vars

\* The ids of the root's default chain that the storage holds files of, one
\* per master key it was derived from.
StoredDefaults ==
  {mk \in RandomKeys :
     encodeKey(discoveryKey(DerivedKey(mk, RootName))) \in disk}

\* C15 (master key round trip): an open that succeeds leaves the engine
\* with the 32 bytes the master_key file holds -- bytes it generated and
\* wrote when the file was absent or short, the bytes it read otherwise; a
\* file of 32 bytes is never written again; hence every store opened on the
\* storage derives the same default chain.
C15_MasterKeyRoundTrip ==
  /\ [](engine = "opened" => keyFile.size >= 32 /\ masterKey = keyFile.bytes)
  /\ [][keyFile.size >= 32 => keyFile' = keyFile]_vars
  /\ [](Cardinality(StoredDefaults) <= 1)
(***************************************************************************)
(* SpecResolve: get called on the root with every combination of the       *)
(* options the resolver reads, and default called with nothing and with a  *)
(* key.                                                                    *)
(***************************************************************************)
GivenPair == Buf(8)
GivenDKey == Buf(9)
\* Every combination of present and absent fields (the key as a string),
\* and the key as bytes, in an object and on its own.
ResolveOpts ==
  {Obj(kp, k, n, d, dk) : kp \in {Null, GivenPair},
                          k \in {Null, encodeKey(ExternalKey)},
                          n \in {NoName, "a"}, d \in BOOLEAN,
                          dk \in {Null, GivenDKey}}
    \cup {Obj(Null, ExternalKey, NoName, FALSE, Null),
          RawOpts(ExternalKey), RawOpts(encodeKey(ExternalKey))}
NextResolve ==
  \/ OpenStart
  \/ \E ok \in BOOLEAN : OpenDone(ok)
  \/ \E o \in ResolveOpts : Get(Root, o, "rnd")
  \/ \E v \in QueryViews, o \in DefaultOpts : Default(v, o)
SpecResolve == InitKept /\ [][NextResolve]_vars

\* C16 (key resolver dispatch): the resolver picks the first shape that
\* matches in the order keyPair, key, name/default, discoveryKey, empty.
\* Every get of the root is answered with the chain whose id is the encoded
\* discovery key of the table (keyPair -> H(pk); key -> H(key); name -> H of
\* the public key derived from the master key and the name; discoveryKey ->
\* the discovery key itself; empty -> H of the key derived from a fresh
\* random name), and `default` with no name, key or key pair is refused with
\* MissingName and nothing else is.  Every chain that is instantiated has
\* the public and the secret key of the table for the options it was made
\* with (key -> no secret key; discoveryKey -> neither key).  default(k) for
\* a key k given as bytes is the same step as get({key: k, name: view.name})
\* and returns the chain of the discovery key H(k).
C16_ResolverDispatch ==
  /\ [][
        LET Raw(o) == IF o.t = "raw"
                      THEN [o EXCEPT !.t = "obj", !.key = decodeKey(o.key)] ELSE o
            Shape(o) ==
              CASE Raw(o).keyPair # Null -> "keyPair"
                [] Raw(o).keyPair = Null /\ Raw(o).key # Null -> "key"
                [] Raw(o).keyPair = Null /\ Raw(o).key = Null
                     /\ Raw(o).name # NoName -> "name"
                [] Raw(o).keyPair = Null /\ Raw(o).key = Null
                     /\ Raw(o).name = NoName /\ Raw(o).default -> "MissingName"
                [] OTHER -> IF Raw(o).discoveryKey # Null THEN "discoveryKey"
                            ELSE "empty"
            Pk(o) ==
              CASE Shape(o) = "keyPair" -> Raw(o).keyPair
                [] Shape(o) = "key" -> decodeKey(Raw(o).key)
                [] Shape(o) = "name" -> DerivedKey(masterKey, Raw(o).name)
                [] Shape(o) = "empty" -> DerivedKey(masterKey, "rnd")
                [] OTHER -> Null
            Sk(o) == IF Shape(o) \in {"keyPair", "name", "empty"}
                     THEN secretKeyOf(Pk(o)) ELSE Null
            Dk(o) == IF Shape(o) = "discoveryKey" THEN decodeKey(Raw(o).discoveryKey)
                     ELSE discoveryKey(Pk(o))
        IN
          /\ \A o \in ResolveOpts :
               Get(Root, o, "rnd") /\ engine = "opened" =>
                 IF Shape(o) = "MissingName"
                 THEN threw' = "MissingName" /\ ret' = 0
                 ELSE /\ threw' = ""
                      /\ ret' \in 1..Len(chains')
                      /\ chains'[ret'].id = encodeKey(Dk(o))
          /\ Len(chains') = Len(chains) + 1 =>
               LET ch == chains'[Len(chains')]
               IN  /\ ret' = Len(chains')
                   /\ Shape(ch.opts) # "MissingName"
                   /\ ch.key = Pk(ch.opts)
                   /\ ch.secretKey = Sk(ch.opts)
                   /\ ch.id = encodeKey(Dk(ch.opts))
           ]_vars
  /\ [][\A v \in QueryViews :
          Default(v, RawOpts(ExternalKey)) /\ engine = "opened" =>
            /\ Get(v, Obj(Null, ExternalKey, ViewName(v), FALSE, Null), "rnd")
            /\ threw' = ""
            /\ chains'[ret'].id = encodeKey(discoveryKey(ExternalKey))
            /\ (ret' = Len(chains) + 1 => chains'[ret'].key = ExternalKey)]_vars

\* C16 witness: default(k) of the namespace "a" made the chain of the key k
\* (no secret key), and a get with options that hold a key pair, a key, a
\* name, the default flag and a discovery key at once made the chain of the
\* key pair.
C16_Witness ==
  /\ Len(chains) = 2
  /\ chains[1].opts = Obj(Null, ExternalKey, "a", FALSE, Null)
  /\ chains[1].key = ExternalKey /\ chains[1].secretKey = Null
  /\ got["a"] = {1}
  /\ chains[2].opts = Obj(GivenPair, encodeKey(ExternalKey), "a", TRUE, GivenDKey)
  /\ chains[2].key = GivenPair /\ chains[2].secretKey = secretKeyOf(GivenPair)
  /\ got[Root] = {2}

\* C17 (feed): the engine emits one feed for a chain in the step in which
\* the chain becomes ready, unless the chain errored before, and in no
\* other step: a get -- served from the cache or not -- emits none, a chain
\* that errored before it became ready never has one, no chain has two,
\* and the feeds stand in the order in which the chains became ready.
C17_FeedAtReady ==
  /\ [][LET becameReady == {c \in ChainIds : ~chains[c].ready /\ chains'[c].ready}
        IN  feeds' = IF \E c \in becameReady : ~chains[c].errored
                     THEN Append(feeds, [chain |-> CHOOSE c \in becameReady : TRUE,
                                         opts |-> chains[CHOOSE c \in becameReady : TRUE].opts])
                     ELSE feeds]_vars
  /\ [](\A i, j \in 1..Len(feeds) : feeds[i].chain = feeds[j].chain => i = j)
  /\ [](\A i \in 1..Len(feeds) :
          /\ feeds[i].chain \in ChainIds
          /\ chains[feeds[i].chain].ready
          /\ ~chains[feeds[i].chain].errored)

\* C17 witness: the chain got second became ready first and its feed came
\* first; both chains were got again from the cache in between.
C17_Witness ==
  /\ Len(feeds) = 2
  /\ feeds[1].chain = 2 /\ feeds[2].chain = 1
  /\ got[Root] = {1, 2} /\ got["a"] = {1, 2}

\* C18 (feed arguments): every feed event a listener of a store object (the
\* root or a namespace) is called with carries the chain and the options
\* the chain was instantiated with.
C18_FeedCarriesOptions ==
  \A v \in Views : \A i \in 1..Len(viewFeeds[v]) :
    /\ viewFeeds[v][i].chain \in ChainIds
    /\ viewFeeds[v][i].opts = chains[viewFeeds[v][i].chain].opts

NextStreams ==
  \/ OpenStart
  \/ \E ok \in BOOLEAN : OpenDone(ok)
  \/ Default(Root, EmptyOpts)
  \/ \E c \in 1..MaxChains : ChainReady(c)
  \/ \E v \in ReplViews : Replicate(v)
  \/ \E c \in 1..MaxChains, s \in 1..MaxStreams : FireReadyCb(c, s)
  \/ \E s \in 1..MaxStreams : StreamEvent(s)
SpecStreams == InitKept /\ [][NextStreams]_vars

\* C20 (active-stream registry): a stream is in the active list exactly
\* from the replicate call that made it until its first finish/end/close
\* event, and it is there once.  The first event of a stream removes the
\* stream's entry and no other; a later event of the same stream removes
\* nothing; in both cases the entries of the other streams stay, in their
\* order.  Nothing but replicate (which appends the new stream) and the
\* events changes the list.
C20_StreamRegistry ==
  /\ [](\A s \in StreamIds : (s \in Range(replStreams)) <=> ~streams[s].closed)
  /\ [](\A i, j \in 1..Len(replStreams) : replStreams[i] = replStreams[j] => i = j)
  /\ [][\A s \in StreamIds :
          StreamEvent(s) =>
            /\ s \notin Range(replStreams')
            /\ SelectSeq(replStreams', LAMBDA t : t # s)
                 = SelectSeq(replStreams, LAMBDA t : t # s)
            /\ Len(replStreams') =
                 Len(replStreams) - (IF streams[s].closed THEN 0 ELSE 1)]_vars
  /\ [][\/ replStreams' = replStreams
        \/ /\ Len(streams') = Len(streams) + 1
           /\ replStreams' = Append(replStreams, Len(streams'))
        \/ \E s \in StreamIds : /\ ~streams[s].closed /\ streams'[s].closed
                                 /\ replStreams'
                                      = SelectSeq(replStreams, LAMBDA t : t # s)]_vars

\* C20 witness: of two streams the first had its event and left the list
\* while the second is still in it.
C20_Witness ==
  /\ Len(streams) = 2
  /\ streams[1].closed /\ ~streams[2].closed
  /\ replStreams = <<2>>

(***************************************************************************)
(* SpecEvents: the events of the chains get made -- ready, error before    *)
(* and after ready, close -- while chains are got again under the same     *)
(* ids.                                                                    *)
(***************************************************************************)
NextEvents ==
  \/ OpenStart
  \/ \E ok \in BOOLEAN : OpenDone(ok)
  \/ \E v \in QueryViews, o \in ReplOpts : Get(v, o, "rnd")
  \/ \E c \in 1..MaxChains : ChainReady(c)
  \/ \E c \in 1..MaxChains : ChainError(c)
  \/ \E c \in 1..MaxChains : ChainErrorLate(c)
  \/ \E c \in 1..MaxChains : GateTick(c)
  \/ \E c \in 1..MaxChains : UserCloseChain(c)
  \/ \E c \in 1..MaxChains, ok \in BOOLEAN : ChainClosed(c, ok)
SpecEvents == InitKept /\ [][NextEvents]_vars

\* C21 (failure and close leave the cache): in the step in which a chain
\* signals its first error -- before or after it became ready -- or signals
\* close, the cache stops mapping the chain's id to that chain; and get
\* throws nothing but NotOpen and MissingName.
C21_LeavesCache ==
  /\ [][\A c \in ChainIds :
          \/ ~chains[c].failed /\ chains'[c].failed
          \/ chains[c].closeSt # "closed" /\ chains'[c].closeSt = "closed"
          => CacheValue(cache', chains[c].id) # c]_vars
  /\ [](threw \in {"", "NotOpen", "MissingName"})

(***************************************************************************)
(* SpecCloseFair: SpecClose where every chain close that was started       *)
(* calls back and the next tick comes.                                     *)
(***************************************************************************)
SpecCloseFair ==
  /\ SpecClose
  /\ WF_vars(CloseTick)
  /\ \A c \in 1..MaxChains : WF_vars(\E ok \in BOOLEAN : ChainClosed(c, ok))

\* C22 (close terminates): once _close has run its callback is invoked in
\* the end; it is not invoked in the step of the close call itself, not
\* before every chain that was in the cache when close began has called
\* back, and nothing reaches it after it was invoked.
C22_CloseTerminates ==
  /\ (closing.st # "none") ~> (closing.st = "done")
  /\ [][closing.st = "none" => closing'.st # "done"]_vars
  /\ [](closing.st = "done" =>
          \A c \in closing.chainsAtClose : chains[c].closeSt \in {"closed", "failed"})
  /\ [][closing.st = "done" => closing' = closing]_vars

\* C22 witness: the callback was invoked after two chains called back, one
\* of which the user had started to close before the store was closed.
C22_Witness ==
  /\ closing.st = "done"
  /\ Cardinality(closing.chainsAtClose) = 2
  /\ CacheSizeOf(cache) = 0

\* C23 (observers are scoped to their chain): when the cache holds chain b
\* under an id, the close or error event of another chain a made under the
\* same id leaves b's entry in place; and so a chain that get made, that
\* has not failed and whose close has not been started, is the chain the
\* cache holds for its id.
C23_ScopedObservers ==
  /\ [][\A a, b \in ChainIds :
          /\ a # b /\ chains[a].id = chains[b].id
          /\ CacheValue(cache, chains[b].id) = b
          /\ \/ ~chains[a].failed /\ chains'[a].failed
             \/ chains[a].closeSt # "closed" /\ chains'[a].closeSt = "closed"
          => CacheValue(cache', chains[b].id) = b]_vars
  /\ [](\A c \in ChainIds :
          chains[c].closeSt = "open" /\ ~chains[c].failed
            => CacheValue(cache, chains[c].id) = c)

\* C24 (no duplicate replication): chain.replicate is called at most once
\* for every chain and every replication stream.
C24_NoDuplicateReplication ==
  \A c \in ChainIds, s \in StreamIds : Count(replicated, c, s) <= 1

\* SpecEvents where the ticks that were scheduled run.
SpecEventsFair ==
  SpecEvents /\ \A c \in 1..MaxChains : WF_vars(GateTick(c))

\* C25 (the ifAvailable gate is balanced): every chain get made has waited
\* on its gate once, in the step of the get that made it; the gate is
\* released at most once whatever the order of ready and error; it is
\* released in the step of an error that comes before ready, and a chain
\* that became ready without an error before has its gate released on the
\* tick that follows.
C25_GateBalanced ==
  /\ [](\A c \in ChainIds :
          /\ chains[c].waits = 1
          /\ chains[c].continues + (IF chains[c].tick THEN 1 ELSE 0) <= 1
          /\ chains[c].errored => chains[c].continues = 1
          /\ chains[c].ready /\ ~chains[c].errored =>
               chains[c].continues = 1 \/ chains[c].tick)
  /\ [][\A c \in ChainIds : chains'[c].waits = chains[c].waits
                            /\ chains'[c].continues >= chains[c].continues]_vars
  /\ \A c \in 1..MaxChains :
       (c \in ChainIds /\ chains[c].ready /\ ~chains[c].errored)
         ~> (c \in ChainIds /\ chains[c].continues = 1)

\* C25 witness: one chain errored and then became ready, the other became
\* ready and then failed; each gate was released once.
C25_Witness ==
  /\ Len(chains) = 2
  /\ chains[1].errored /\ chains[1].ready /\ chains[1].continues = 1
  /\ chains[2].ready /\ chains[2].failed /\ ~chains[2].errored
  /\ chains[2].continues = 1 /\ ~chains[2].tick

\* C26 (a closed stream is never acted on): when the existence check of a
\* discovery key completes after its stream has emitted finish, end or
\* close, whatever the check found, no chain is made, the cache stays as it
\* is, the sub-channel is not closed and no replication onto the stream is
\* requested or started; get is not called, so nothing is thrown.
C26_ClosedStreamUntouched ==
  [][\A ck \in checks, outcome \in {"true", "false", "err"} :
       (streams[ck.stream].closed /\ CheckDone(ck, outcome)) =>
         /\ Len(chains') = Len(chains)
         /\ cache' = cache
         /\ subClosed' = subClosed
         /\ readyCbs' = readyCbs /\ replicated' = replicated
         /\ ret' = 0 /\ threw' = ""]_vars

\* C26 witness: the stream has emitted its event while the check of a
\* discovery key whose chain is on disk is pending on an opened store.
C26_Witness ==
  \E ck \in checks :
    /\ streams[ck.stream].closed
    /\ ck.stream \notin Range(replStreams)
    /\ encodeKey(ck.dkey) \in disk
    /\ engine = "opened"

\* C27 (derivation names are injective over namespace paths): two
\* namespaces reached from the root by different sequences of namespace
\* names have different names, and their default chains are different
\* chains with different keys.
C27_InjectiveNames ==
  \A v, w \in Views :
    (v # w /\ HasParent(v) /\ HasParent(w) /\ got[v] # {} /\ got[w] # {}) =>
      /\ ViewName(v) # ViewName(w)
      /\ \A c \in got[v], e \in got[w] :
           c # e /\ chains[c].key # chains[e].key

====
